---- MODULE Spec2Model ----
(***************************************************************************)
(* Model of the Scott Hasn't Seen -> Radarr list generator                 *)
(* (.github/scripts/main.go).                                              *)
(*                                                                         *)
(* Go strings that the program inspects (titles) are sequences of          *)
(* one-character strings; identifiers the program only compares with ""    *)
(* (IMDB ids, poster paths, the API key) are TLA+ strings.                 *)
(***************************************************************************)
EXTENDS Integers, Sequences, FiniteSets, TLC

VARIABLES
    apiKey,       \* os.Getenv("TMDB_API_KEY")
    wiki,         \* what the wiki server answers to the GET of wikiURL
    tmdb,         \* what the TMDB API answers (per query / per catalog id)
    mainPc,       \* position of main / generateRadarrList
    movieTitles,  \* generateRadarrList: movieTitles
    pc,           \* position of each spawned goroutine
    res,          \* each goroutine's (movie, err) from searchMovie
    tmp,          \* each goroutine's value read inside the critical section
    semaphore,    \* number of tokens in the buffered channel
    mu,           \* holder of the mutex (0 = unlocked)
    wg,           \* WaitGroup counter
    radarrList,   \* generateRadarrList: radarrList
    successful,   \* generateRadarrList: successful
    failed,       \* generateRadarrList: failed
    ret,          \* what generateRadarrList returned to main
    files,        \* sequence of files written by saveToFile
    exit,         \* process exit: "running", "ok" or "fatal"
    apiCalls,     \* history: number of TMDB requests issued so far
    reqs,         \* per goroutine, the HTTP round trips its searchMovie call has made
    slept,        \* history: per task, whether time.Sleep(250ms) was executed
    aggregated,   \* history: per task, what its aggregation step did
    hin,          \* a direct call of one function: the function and its arguments
    hout          \* a direct call of one function: what it returned

vars == << apiKey, wiki, tmdb, mainPc, movieTitles, pc, res, tmp, semaphore, mu,
           wg, radarrList, successful, failed, ret, files, exit, apiCalls, reqs, slept,
           aggregated, hin, hout >>

(***************************************************************************)
(* Strings                                                                 *)
(***************************************************************************)
Upper == <<"A", "B", "C", "D", "E", "F", "G", "H", "I", "J", "K", "L", "M",
           "N", "O", "P", "Q", "R", "S", "T", "U", "V", "W", "X", "Y", "Z">>
Lower == <<"a", "b", "c", "d", "e", "f", "g", "h", "i", "j", "k", "l", "m",
           "n", "o", "p", "q", "r", "s", "t", "u", "v", "w", "x", "y", "z">>
Digits == <<"0", "1", "2", "3", "4", "5", "6", "7", "8", "9">>

\* The characters of the model in byte order (space 32, ' 39, / 47, digits,
\* upper case, lower case).
Ascii == <<" ", "'", "/">> \o Digits \o Upper \o Lower

Ord(c) == CHOOSE i \in 1..Len(Ascii) : Ascii[i] = c

IsSpace(c) == c = " "
IsDigit(c) == \E i \in 1..Len(Digits) : Digits[i] = c

\* Go's < on strings: byte-wise lexicographic order.
RECURSIVE StrLess(_, _)
StrLess(a, b) ==
    IF b = <<>> THEN FALSE
    ELSE IF a = <<>> THEN TRUE
    ELSE IF a[1] = b[1] THEN StrLess(Tail(a), Tail(b))
    ELSE Ord(a[1]) < Ord(b[1])

\* strings.ToLower on the model's characters.
LowerChar(c) ==
    IF \E i \in 1..26 : Upper[i] = c
    THEN Lower[CHOOSE i \in 1..26 : Upper[i] = c]
    ELSE c
ToLower(s) == [i \in 1..Len(s) |-> LowerChar(s[i])]

\* sub occurs in s starting at position i.
MatchAt(s, sub, i) ==
    /\ i + Len(sub) - 1 <= Len(s)
    /\ \A k \in 1..Len(sub) : s[i + k - 1] = sub[k]

\* strings.Contains
Contains(s, sub) ==
    \E i \in 1..(Len(s) - Len(sub) + 1) : SubSeq(s, i, i + Len(sub) - 1) = sub

\* strings.TrimSpace
RECURSIVE TrimLeft(_)
TrimLeft(s) == IF s # <<>> /\ IsSpace(s[1]) THEN TrimLeft(Tail(s)) ELSE s
RECURSIVE TrimRight(_)
TrimRight(s) ==
    IF s # <<>> /\ IsSpace(s[Len(s)]) THEN TrimRight(SubSeq(s, 1, Len(s) - 1)) ELSE s
TrimSpace(s) == TrimRight(TrimLeft(s))

\* strings.Split(s, "/")[0]: everything before the first "/".
RECURSIVE FirstPart(_)
FirstPart(s) ==
    IF s = <<>> \/ s[1] = "/" THEN <<>> ELSE <<s[1]>> \o FirstPart(Tail(s))

\* len(strings.Fields(s)): the number of maximal runs of non-space characters.
NumFields(s) ==
    Cardinality({i \in 1..Len(s) : ~IsSpace(s[i]) /\ (i = 1 \/ IsSpace(s[i - 1]))})

(***************************************************************************)
(* extractMovieTitles                                                      *)
(***************************************************************************)
skipKeywords ==
    << <<"c", "o", "b", "r", "a", " ", "k", "a", "i">>,
       <<"s", "e", "a", "s", "o", "n">>,
       <<"e", "p", "i", "s", "o", "d", "e", "s">>,
       <<"p", "i", "l", "o", "t">>,
       <<"w", "a", "t", "c", "h", "a", "l", "o", "n", "g">>,
       <<"a", "w", "a", "r", "d", "s">>,
       <<"t", "h", "e", " ", "s", "c", "o", "t", "t", " ", "h", "a", "s", "n", "'", "t", " ", "s", "e", "e", "n", "i", "e", "s">>,
       <<"m", "a", "r", "c", "h", " ", "o", "f", " ", "t", "h", "e", " ", "p", "e", "n", "g", "u", "i", "n", "s">>,
       <<"s", "e", "p", "t", "e", "m", "b", "e", "r", " ", "5">>,
       <<"t", "w", "i", "n", " ", "p", "e", "a", "k", "s">>,
       <<"m", "a", "r", "t", "i", "n">>,
       <<"s", "p", "r", "a", "g", "u", "e", " ", "h", "a", "s", "n", "'", "t", " ", "s", "e", "e", "n">>,
       <<"d", "i", "d">>,
       <<"n", "e", "x", "t">>,
       <<"t", "h", "e", " ", "s", "c", "o", "t", "t", " ", "h", "a", "s", "n", "'", "t", " ", "s", "e", "e", "n", "i", "e", "s", " ", "a", "w", "a", "r", "d", "s">>,
       <<"s", "c", "o", "t", "t", " ", "h", "a", "s", "n", "'", "t", " ", "s", "e", "e", "n">> >>

\* Mutant of HasSkipKeyword: the title is compared as written, not lower-cased.
HasSkipKeywordCaseSensitive(title) ==
    \E k \in 1..Len(skipKeywords) : Contains(title, skipKeywords[k])

\* The title's lower-case form contains one of the skip keywords.
HasSkipKeyword(title) ==
    \E k \in 1..Len(skipKeywords) : Contains(ToLower(title), skipKeywords[k])

\* "part " followed by at least one digit, at position i of the lower-cased s.
PartNumberAt(s, i) ==
    /\ MatchAt(s, <<"p", "a", "r", "t", " ">>, i)
    /\ i + 5 <= Len(s)
    /\ IsDigit(s[i + 5])

\* Mutant of episodePattern: the pattern lacks the alternative part \d+.
episodePatternNoPart(title) ==
    LET l == ToLower(title)
    IN  \/ Contains(l, <<"e", "p", "i", "s", "o", "d", "e">>)
        \/ Contains(l, <<"s", "e", "a", "s", "o", "n">>)

\* regexp (?i)episode|season|part \d+ matches somewhere in the title.
episodePattern(title) ==
    LET l == ToLower(title)
    IN  \/ Contains(l, <<"e", "p", "i", "s", "o", "d", "e">>)
        \/ Contains(l, <<"s", "e", "a", "s", "o", "n">>)
        \/ \E i \in 1..Len(l) : PartNumberAt(l, i)

\* Mutant of AcceptTitle: a single word is too short under 5 characters.
AcceptTitleShortWordOffByOne(title) ==
    /\ ~(Len(title) < 3)
    /\ ~HasSkipKeyword(title)
    /\ ~episodePattern(title)
    /\ ~(NumFields(title) <= 1 /\ Len(title) < 5)

\* Mutant of AcceptTitle: the length of the title is not looked at.
AcceptTitleNoLengthRules(title) ==
    /\ ~HasSkipKeyword(title)
    /\ ~episodePattern(title)

\* The rules a trimmed, not yet seen candidate must pass to be appended.
AcceptTitle(title) ==
    /\ ~(Len(title) < 3)
    /\ ~HasSkipKeyword(title)
    /\ ~episodePattern(title)
    /\ ~(NumFields(title) <= 1 /\ Len(title) < 4)

\* Mutant of ExtractFrom: the texts seen are not recorded.
RECURSIVE ExtractFromNoSeen(_, _)
ExtractFromNoSeen(cands, st) ==
    IF cands = <<>> THEN st
    ELSE LET title == TrimSpace(cands[1])
         IN  ExtractFromNoSeen(Tail(cands),
                 [movies |-> IF AcceptTitle(title)
                             THEN Append(st.movies, title)
                             ELSE st.movies,
                  seen   |-> st.seen])

\* The body of the Each callback folded over the <i> elements in document
\* order: st = [movies, seen].
RECURSIVE ExtractFrom(_, _)
ExtractFrom(cands, st) ==
    IF cands = <<>> THEN st
    ELSE LET title == TrimSpace(cands[1])
         IN  IF title \in st.seen
             THEN ExtractFrom(Tail(cands), st)
             ELSE ExtractFrom(Tail(cands),
                     [movies |-> IF AcceptTitle(title)
                                 THEN Append(st.movies, title)
                                 ELSE st.movies,
                      seen   |-> st.seen \cup {title}])

\* extractMovieTitles on a document given as the texts of its <i> elements.
extractMovieTitles(cands) == ExtractFrom(cands, [movies |-> <<>>, seen |-> {}]).movies

(***************************************************************************)
(* The TMDB API as the program sees it                                     *)
(*                                                                         *)
(* A world w answers a movie search per query (w.search) and an            *)
(* external-ids lookup per catalog id (w.ext).  A search answer is         *)
(*   [kind |-> "transport" | "status" | "decode" | "ok", results |-> seq]  *)
(* with results a sequence of TMDBMovie = [ID, Title, PosterPath]; an      *)
(* external-ids answer is [kind |-> (same kinds), imdb |-> string].        *)
(***************************************************************************)
NoResults == [kind |-> "ok", results |-> <<>>]

SearchResponse(w, q) == IF q \in DOMAIN w.search THEN w.search[q] ELSE NoResults

ExtResponse(w, id) ==
    IF id \in DOMAIN w.ext THEN w.ext[id] ELSE [kind |-> "status", imdb |-> ""]

NilErr == "nil"
ErrSearchTransport == "failed to search movie"
ErrSearchStatus == "TMDB API returned status"
ErrSearchDecode == "failed to decode TMDB response"
ErrNoResults == "no results found"
ErrIMDBID == "failed to get IMDB ID"
ErrTriedBoth == "no results found (tried full title and first part)"
ErrExtTransport == "failed to get external IDs"
ErrExtStatus == "TMDB API returned status for external IDs"
ErrExtDecode == "failed to decode external IDs response"

\* The fixed prefix of a poster URL, kept as one piece: a poster URL is the
\* sequence of this piece followed by the characters of the poster path.
PosterBase == "https://www.themoviedb.org/t/p/w300_and_h450_bestv2"

SearchCall(q) == [op |-> "search", q |-> q, id |-> 0]
ExtCall(id) == [op |-> "external_ids", q |-> <<>>, id |-> id]

\* getIMDBID: (imdb id, err) for a catalog id.
getIMDBID(w, tmdbID) ==
    LET r == ExtResponse(w, tmdbID)
    IN  IF r.kind = "transport" THEN [id |-> "", err |-> ErrExtTransport]
        ELSE IF r.kind = "status" THEN [id |-> "", err |-> ErrExtStatus]
        ELSE IF r.kind = "decode" THEN [id |-> "", err |-> ErrExtDecode]
        ELSE [id |-> r.imdb, err |-> NilErr]

\* A (nil, err) return.
Failure(err, calls) == [movie |-> <<>>, err |-> err, calls |-> calls]

\* Mutant of searchMovieExact: a failed external-ids lookup is not returned
\* as an error; the entry is built with the empty id the lookup gave.
searchMovieExactKeepsEntry(w, title) ==
    LET r == SearchResponse(w, title)
        s == <<SearchCall(title)>>
    IN  IF r.kind = "transport" THEN Failure(ErrSearchTransport, s)
        ELSE IF r.kind = "status" THEN Failure(ErrSearchStatus, s)
        ELSE IF r.kind = "decode" THEN Failure(ErrSearchDecode, s)
        ELSE IF Len(r.results) = 0 THEN Failure(ErrNoResults, s)
        ELSE LET movie == r.results[1]
                 imdb  == getIMDBID(w, movie.ID)
             IN  [movie |-> << [Title     |-> movie.Title,
                                 IMDBID    |-> imdb.id,
                                 PosterURL |-> IF movie.PosterPath # <<>>
                                               THEN <<PosterBase>> \o movie.PosterPath
                                               ELSE <<>>] >>,
                  err   |-> NilErr,
                  calls |-> Append(s, ExtCall(movie.ID))]

\* searchMovieExact: (movie, err) and the requests it issued.  movie is <<>>
\* for nil and <<m>> for a pointer to m.
searchMovieExact(w, title) ==
    LET r == SearchResponse(w, title)
        s == <<SearchCall(title)>>
    IN  IF r.kind = "transport" THEN Failure(ErrSearchTransport, s)
        ELSE IF r.kind = "status" THEN Failure(ErrSearchStatus, s)
        ELSE IF r.kind = "decode" THEN Failure(ErrSearchDecode, s)
        ELSE IF Len(r.results) = 0 THEN Failure(ErrNoResults, s)
        ELSE LET movie == r.results[1]
                 imdb  == getIMDBID(w, movie.ID)
                 calls == Append(s, ExtCall(movie.ID))
             IN  IF imdb.err # NilErr THEN Failure(ErrIMDBID, calls)
                 ELSE [movie |-> << [Title     |-> movie.Title,
                                     IMDBID    |-> imdb.id,
                                     PosterURL |-> IF movie.PosterPath # <<>>
                                                   THEN <<PosterBase>> \o movie.PosterPath
                                                   ELSE <<>>] >>,
                       err   |-> NilErr,
                       calls |-> calls]

\* Mutant of searchMovie: no second attempt on the first "/"-segment.
searchMovieNoFallback(w, title) ==
    IF Contains(title, <<"/">>)
    THEN LET full == searchMovieExact(w, title)
         IN  IF full.err = NilErr THEN full ELSE Failure(ErrTriedBoth, full.calls)
    ELSE searchMovieExact(w, title)

\* Mutant of searchMovie: after two failed attempts the error of the first
\* attempt is returned.
searchMovieOriginalError(w, title) ==
    IF Contains(title, <<"/">>)
    THEN LET full == searchMovieExact(w, title)
         IN  IF full.err = NilErr THEN full
             ELSE LET firstPart == TrimSpace(FirstPart(title))
                  IN  IF firstPart # <<>>
                      THEN LET part == searchMovieExact(w, firstPart)
                           IN  IF part.err = NilErr
                               THEN [part EXCEPT !.calls = full.calls \o part.calls]
                               ELSE Failure(full.err, full.calls \o part.calls)
                      ELSE Failure(full.err, full.calls)
    ELSE searchMovieExact(w, title)

\* Mutant of searchMovie: the first "/"-segment is tried before the full
\* title.
searchMovieFirstPartFirst(w, title) ==
    IF Contains(title, <<"/">>)
    THEN LET firstPart == TrimSpace(FirstPart(title))
             part == IF firstPart # <<>> THEN searchMovieExact(w, firstPart)
                     ELSE Failure(ErrNoResults, <<>>)
         IN  IF part.err = NilErr THEN part
             ELSE LET full == searchMovieExact(w, title)
                  IN  IF full.err = NilErr
                      THEN [full EXCEPT !.calls = part.calls \o full.calls]
                      ELSE Failure(ErrTriedBoth, part.calls \o full.calls)
    ELSE searchMovieExact(w, title)

\* Mutant of searchMovie: an entry with an empty IMDB id counts as a failed
\* first attempt.
searchMovieFallbackOnEmptyId(w, title) ==
    IF Contains(title, <<"/">>)
    THEN LET full == searchMovieExact(w, title)
         IN  IF full.err = NilErr /\ full.movie[1].IMDBID # "" THEN full
             ELSE LET firstPart == TrimSpace(FirstPart(title))
                  IN  IF firstPart # <<>>
                      THEN LET part == searchMovieExact(w, firstPart)
                           IN  IF part.err = NilErr
                               THEN [part EXCEPT !.calls = full.calls \o part.calls]
                               ELSE Failure(ErrTriedBoth, full.calls \o part.calls)
                      ELSE Failure(ErrTriedBoth, full.calls)
    ELSE searchMovieExact(w, title)

\* searchMovie: the full title first; for a title with "/", on failure the
\* trimmed first "/"-segment when it is not empty.
searchMovie(w, title) ==
    IF Contains(title, <<"/">>)
    THEN LET full == searchMovieExact(w, title)
         IN  IF full.err = NilErr THEN full
             ELSE LET firstPart == TrimSpace(FirstPart(title))
                  IN  IF firstPart # <<>>
                      THEN LET part == searchMovieExact(w, firstPart)
                           IN  IF part.err = NilErr
                               THEN [part EXCEPT !.calls = full.calls \o part.calls]
                               ELSE Failure(ErrTriedBoth, full.calls \o part.calls)
                      ELSE Failure(ErrTriedBoth, full.calls)
    ELSE searchMovieExact(w, title)

\* genreMap: TMDB genre id -> genre name (a sequence of characters).
genreMap ==
    28 :> <<"a", "c", "t", "i", "o", "n">>
    @@ 12 :> <<"a", "d", "v", "e", "n", "t", "u", "r", "e">>
    @@ 16 :> <<"a", "n", "i", "m", "a", "t", "i", "o", "n">>
    @@ 35 :> <<"c", "o", "m", "e", "d", "y">>
    @@ 80 :> <<"c", "r", "i", "m", "e">>
    @@ 99 :> <<"d", "o", "c", "u", "m", "e", "n", "t", "a", "r", "y">>
    @@ 18 :> <<"d", "r", "a", "m", "a">>
    @@ 10751 :> <<"f", "a", "m", "i", "l", "y">>
    @@ 14 :> <<"f", "a", "n", "t", "a", "s", "y">>
    @@ 36 :> <<"h", "i", "s", "t", "o", "r", "y">>
    @@ 27 :> <<"h", "o", "r", "r", "o", "r">>
    @@ 10402 :> <<"m", "u", "s", "i", "c">>
    @@ 9648 :> <<"m", "y", "s", "t", "e", "r", "y">>
    @@ 10749 :> <<"r", "o", "m", "a", "n", "c", "e">>
    @@ 878 :> <<"s", "c", "i", "e", "n", "c", "e", "_", "f", "i", "c", "t", "i", "o", "n">>
    @@ 10770 :> <<"t", "v", "_", "m", "o", "v", "i", "e">>
    @@ 53 :> <<"t", "h", "r", "i", "l", "l", "e", "r">>
    @@ 10752 :> <<"w", "a", "r">>
    @@ 37 :> <<"w", "e", "s", "t", "e", "r", "n">>

\* Mutant of getGenres: the result of the map lookup is appended without
\* testing whether the id exists (a missing key reads as the empty string).
RECURSIVE getGenresKeepsUnknown(_)
getGenresKeepsUnknown(genreIDs) ==
    IF genreIDs = <<>> THEN <<>>
    ELSE <<IF genreIDs[1] \in DOMAIN genreMap THEN genreMap[genreIDs[1]] ELSE <<>>>>
         \o getGenresKeepsUnknown(Tail(genreIDs))

\* getGenres: the names of the ids the table knows, in the order of the ids.
RECURSIVE getGenres(_)
getGenres(genreIDs) ==
    IF genreIDs = <<>> THEN <<>>
    ELSE (IF genreIDs[1] \in DOMAIN genreMap THEN <<genreMap[genreIDs[1]]>> ELSE <<>>)
         \o getGenres(Tail(genreIDs))

\* sort.Slice(radarrList, less by Title) on a short slice: insertion sort,
\* each element moved left while it is less than its left neighbour.
RECURSIVE InsertSorted(_, _)
InsertSorted(sorted, m) ==
    IF sorted # <<>> /\ StrLess(m.Title, sorted[Len(sorted)].Title)
    THEN Append(InsertSorted(SubSeq(sorted, 1, Len(sorted) - 1), m), sorted[Len(sorted)])
    ELSE Append(sorted, m)

\* Mutant of SortByTitle: the list is returned in insertion order.
SortByTitleNone(list) == list

RECURSIVE SortByTitle(_)
SortByTitle(list) ==
    IF list = <<>> THEN <<>>
    ELSE InsertSorted(SortByTitle(SubSeq(list, 1, Len(list) - 1)), list[Len(list)])

(***************************************************************************)
(* Inputs: documents and TMDB answers                                      *)
(***************************************************************************)
tDuneRaw == <<" ", "D", "u", "n", "e", " ">>
tDune == <<"D", "u", "n", "e">>
tGhost == <<"G", "h", "o", "s", "t">>
tFaceOff == <<"F", "a", "c", "e", "/", "O", "f", "f">>
tFace == <<"F", "a", "c", "e">>
tCats == <<"C", "a", "t", "s">>
tJaws == <<"J", "a", "w", "s">>
tFameBig == <<"F", "a", "m", "e", "/", "B", "i", "g">>
tFame == <<"F", "a", "m", "e">>
tDuneII == <<"D", "u", "n", "e", " ", "I", "I">>
tDuneMessiah == <<"D", "u", "n", "e", " ", "M", "e", "s", "s", "i", "a", "h">>

tHeat == <<"H", "e", "a", "t">>
tTron == <<"T", "r", "o", "n">>
tAntz == <<"A", "n", "t", "z">>
tBabe == <<"B", "a", "b", "e">>

TMDBMovie(id, title, poster) == [ID |-> id, Title |-> title, PosterPath |-> poster]
Found(results) == [kind |-> "ok", results |-> results]
Broken(kind) == [kind |-> kind, results |-> <<>>]
ExtOk(imdb) == [kind |-> "ok", imdb |-> imdb]

\* The TMDB answers of the pipeline runs: every outcome of searchMovieExact
\* and getIMDBID occurs for some title of CandidatePool.
PipelineWorld ==
    [search |->
        (tDune :> Found(<< TMDBMovie(1, tDune, <<"/", "d">>),
                          TMDBMovie(7, tDuneMessiah, <<>>) >>)
         @@ tGhost :> Found(<< TMDBMovie(3, tGhost, <<"/", "g">>) >>)
         @@ tFaceOff :> NoResults
         @@ tFace :> Found(<< TMDBMovie(4, tFace, <<"/", "f">>) >>)
         @@ tCats :> Broken("transport")
         @@ tJaws :> Found(<< TMDBMovie(5, tJaws, <<>>) >>)
         @@ tFameBig :> Broken("status")
         @@ tFame :> Broken("decode")
         @@ tDuneII :> Found(<< TMDBMovie(9, tDune, <<>>) >>)),
     ext |->
        (1 :> ExtOk("tt1") @@ 3 :> ExtOk("")
         @@ 4 :> ExtOk("tt4") @@ 5 :> [kind |-> "status", imdb |-> ""]
         @@ 7 :> ExtOk("tt7") @@ 9 :> ExtOk("tt9"))]

\* The texts of the <i> elements a document is made of.
CandidatePool ==
    << tDuneRaw, tFaceOff, tCats, tGhost, tDune, tJaws, tFameBig, tDuneII, tFace >>

\* The elements of seq at the positions in S, in order.
RECURSIVE Pick(_, _, _)
Pick(seq, S, i) ==
    IF i > Len(seq) THEN <<>>
    ELSE (IF i \in S THEN <<seq[i]>> ELSE <<>>) \o Pick(seq, S, i + 1)

\* The <i> texts of a document with more titles than the semaphore has slots:
\* one title that resolves after two requests, one that fails after its
\* fallback search, and titles that fail on their only request.
GateList == << tDune, tFameBig, tFame, tHeat, tTron, tAntz, tBabe, tJaws >>

\* A document is named by where its <i> texts come from: the positions picked
\* from CandidatePool, or the length of the prefix taken from GateList.
Document(d) ==
    IF d.from = "pool" THEN Pick(CandidatePool, d.picks, 1)
    ELSE SubSeq(GateList, 1, d.len)

\* The TMDB answers are named, too.
World(name) == PipelineWorld

MaxDocLen == 3

Docs ==
    { [from |-> "pool", picks |-> S, len |-> Cardinality(S)] :
        S \in {X \in SUBSET (1..Len(CandidatePool)) : Cardinality(X) <= MaxDocLen} }

WikiResponses ==
    { [kind |-> k, doc |-> [from |-> "pool", picks |-> {2}, len |-> 1]] :
        k \in {"transport", "status", "parse", "reparse"} }
    \cup { [kind |-> "ok", doc |-> d] : d \in Docs }

(***************************************************************************)
(* generateRadarrList and main                                             *)
(***************************************************************************)
SemCapacity == 5

Tasks == 1..Len(movieTitles)

NoTmp == [list |-> <<>>, successful |-> 0, failed |-> 0]
NoRes == [movie |-> <<>>, err |-> NilErr]
NoRet == [list |-> <<>>, err |-> NilErr]

ErrScrape == "failed to scrape wiki page"
ErrExtract == "failed to extract movie titles"

\* Mutant of KeyMissing: the credential is never found missing.
KeyMissingNever(key) == FALSE

\* tmdbAPIKey == ""
KeyMissing(key) == key = ""

\* main: the TMDB_API_KEY check.
CheckApiKey ==
    /\ mainPc = "main"
    /\ IF KeyMissing(apiKey)
       THEN /\ exit' = "fatal"
            /\ mainPc' = "exited"
       ELSE /\ mainPc' = "scrape"
            /\ UNCHANGED exit
    /\ UNCHANGED << apiKey, wiki, tmdb, movieTitles, pc, res, tmp, semaphore, mu, wg,
                    radarrList, successful, failed, ret, files, apiCalls, reqs, slept,
                    aggregated, hin, hout >>

\* Mutant of ScrapeFails: only the transport error is checked.
ScrapeFailsTransportOnly(page) == page.kind = "transport"

\* scrapeWikiPage returns an error: the GET failed, the status is not 200, or
\* the HTML does not parse.
ScrapeFails(page) == page.kind \in {"transport", "status", "parse"}

\* generateRadarrList up to the loop: scrapeWikiPage, extractMovieTitles and
\* the declarations of the shared state.
ScrapeAndExtract ==
    /\ mainPc = "scrape"
    /\ IF ScrapeFails(wiki)
       THEN /\ ret' = [list |-> <<>>, err |-> ErrScrape]
            /\ mainPc' = "returned"
            /\ UNCHANGED << movieTitles, pc, res, tmp, reqs, slept, aggregated >>
       ELSE IF wiki.kind = "reparse"
       THEN /\ ret' = [list |-> <<>>, err |-> ErrExtract]
            /\ mainPc' = "returned"
            /\ UNCHANGED << movieTitles, pc, res, tmp, reqs, slept, aggregated >>
       ELSE /\ movieTitles' = extractMovieTitles(Document(wiki.doc))
            /\ pc' = [i \in 1..Len(movieTitles') |-> "unspawned"]
            /\ res' = [i \in 1..Len(movieTitles') |-> NoRes]
            /\ tmp' = [i \in 1..Len(movieTitles') |-> NoTmp]
            /\ reqs' = [i \in 1..Len(movieTitles') |-> 0]
            /\ slept' = [i \in 1..Len(movieTitles') |-> FALSE]
            /\ aggregated' = [i \in 1..Len(movieTitles') |-> "none"]
            /\ mainPc' = "spawn"
            /\ UNCHANGED ret
    /\ UNCHANGED << apiKey, wiki, tmdb, semaphore, mu, wg, radarrList, successful,
                    failed, files, exit, apiCalls, hin, hout >>

\* One iteration of the for loop: wg.Add(1) and the go statement.
Spawn ==
    /\ mainPc = "spawn"
    /\ \E i \in Tasks :
          /\ pc[i] = "unspawned"
          /\ \A j \in 1..(i - 1) : pc[j] # "unspawned"
          /\ wg' = wg + 1
          /\ pc' = [pc EXCEPT ![i] = "acquire"]
    /\ UNCHANGED << apiKey, wiki, tmdb, mainPc, movieTitles, res, tmp, semaphore, mu,
                    radarrList, successful, failed, ret, files, exit, apiCalls, reqs, slept,
                    aggregated, hin, hout >>

\* Mutant of CanAcquire: the send never blocks (the channel is not bounded
\* by the five slots).
CanAcquireAlways == TRUE

\* Mutant of CanAcquire: the capacity check is off by one.
CanAcquireOffByOne == semaphore <= SemCapacity

\* semaphore <- struct{}{} can proceed: the channel's buffer is not full.
CanAcquire == semaphore < SemCapacity

\* semaphore <- struct{}{}
Acquire(i) ==
    /\ pc[i] = "acquire"
    /\ CanAcquire
    /\ semaphore' = semaphore + 1
    /\ pc' = [pc EXCEPT ![i] = "search"]
    /\ UNCHANGED << apiKey, wiki, tmdb, mainPc, movieTitles, res, tmp, mu, wg,
                    radarrList, successful, failed, ret, files, exit, apiCalls, reqs, slept,
                    aggregated, hin, hout >>

\* movie, err := s.searchMovie(movieTitle), one HTTP round trip (s.client.Do)
\* at a step: the goroutine is parked for each request of the call, and the
\* call returns after the last one.
Search(i) ==
    /\ pc[i] = "search"
    /\ reqs' = [reqs EXCEPT ![i] = reqs[i] + 1]
    /\ apiCalls' = apiCalls + 1
    /\ LET r == searchMovie(World(tmdb), movieTitles[i])
       IN  IF reqs[i] + 1 < Len(r.calls)
           THEN UNCHANGED << pc, res >>
           ELSE /\ res' = [res EXCEPT ![i] = [movie |-> r.movie, err |-> r.err]]
                /\ pc' = [pc EXCEPT ![i] = "lock"]
    /\ UNCHANGED << apiKey, wiki, tmdb, mainPc, movieTitles, tmp, semaphore, mu, wg,
                    radarrList, successful, failed, ret, files, exit, slept,
                    aggregated, hin, hout >>

\* Mutant of CanLock: the update is not protected by the mutex.
CanLockAlways == TRUE

\* mu.Lock() can proceed: nobody holds the mutex.
CanLock == mu = 0

\* mu.Lock() on whichever of the three branches the task is in, and the read
\* half of the append / ++ that follows it.
Lock(i) ==
    /\ pc[i] = "lock"
    /\ CanLock
    /\ mu' = i
    /\ tmp' = [tmp EXCEPT ![i] = [list |-> radarrList, successful |-> successful,
                                  failed |-> failed]]
    /\ pc' = [pc EXCEPT ![i] = "write"]
    /\ UNCHANGED << apiKey, wiki, tmdb, mainPc, movieTitles, res, semaphore, wg,
                    radarrList, successful, failed, ret, files, exit, apiCalls, reqs, slept,
                    aggregated, hin, hout >>

\* Mutant of Branch: an entry without a poster is treated as a failure.
BranchRequiresPoster(r) ==
    IF r.err # NilErr THEN "fail"
    ELSE IF r.movie[1].IMDBID # "" /\ r.movie[1].PosterURL # <<>> THEN "append"
    ELSE "fail"

\* Mutant of Branch: the IMDB id is not looked at.
BranchIgnoresId(r) == IF r.err # NilErr THEN "fail" ELSE "append"

\* The branch a task takes on its search outcome: "append" when searchMovie
\* succeeded and the IMDB id is not empty, "fail" otherwise.
Branch(r) ==
    IF r.err # NilErr THEN "fail"
    ELSE IF r.movie[1].IMDBID # "" THEN "append"
    ELSE "fail"

\* The write half: radarrList = append(radarrList, *movie); successful++, or
\* failed++.
Write(i) ==
    /\ pc[i] = "write"
    /\ IF Branch(res[i]) = "append"
       THEN /\ radarrList' = Append(tmp[i].list, res[i].movie[1])
            /\ successful' = tmp[i].successful + 1
            /\ UNCHANGED failed
       ELSE /\ failed' = tmp[i].failed + 1
            /\ UNCHANGED << radarrList, successful >>
    /\ aggregated' = [aggregated EXCEPT ![i] = Branch(res[i])]
    /\ tmp' = [tmp EXCEPT ![i] = NoTmp]
    /\ pc' = [pc EXCEPT ![i] = "unlock"]
    /\ UNCHANGED << apiKey, wiki, tmdb, mainPc, movieTitles, res, semaphore, mu, wg,
                    ret, files, exit, apiCalls, reqs, slept, hin, hout >>

\* Mutant of AfterUnlock: the release is not deferred, so the return of the
\* error branch goes straight to wg.Done().
AfterUnlockSkipsRelease(r) == IF r.err # NilErr THEN "done" ELSE "sleep"

\* Mutant of AfterUnlock: the error branch ends the goroutine without running
\* the deferred release and wg.Done().
AfterUnlockSkipsDeferred(r) == IF r.err # NilErr THEN "exit" ELSE "sleep"

\* Where a task continues after mu.Unlock(): the error branch returns (the
\* deferred calls run next), the other two fall through to time.Sleep.
AfterUnlock(r) == IF r.err # NilErr THEN "release" ELSE "sleep"

\* Mutant of Unlock: the error branch returns without mu.Unlock().
UnlockKeepsMutexOnError(i) ==
    /\ pc[i] = "unlock"
    /\ mu' = IF res[i].err # NilErr THEN mu ELSE 0
    /\ pc' = [pc EXCEPT ![i] = AfterUnlock(res[i])]
    /\ UNCHANGED << apiKey, wiki, tmdb, mainPc, movieTitles, res, tmp, semaphore, wg,
                    radarrList, successful, failed, ret, files, exit, apiCalls, reqs, slept,
                    aggregated, hin, hout >>

\* mu.Unlock()
Unlock(i) ==
    /\ pc[i] = "unlock"
    /\ mu' = 0
    /\ pc' = [pc EXCEPT ![i] = AfterUnlock(res[i])]
    /\ UNCHANGED << apiKey, wiki, tmdb, mainPc, movieTitles, res, tmp, semaphore, wg,
                    radarrList, successful, failed, ret, files, exit, apiCalls, reqs, slept,
                    aggregated, hin, hout >>

\* time.Sleep(250 * time.Millisecond)
Sleep(i) ==
    /\ pc[i] = "sleep"
    /\ slept' = [slept EXCEPT ![i] = TRUE]
    /\ pc' = [pc EXCEPT ![i] = "release"]
    /\ UNCHANGED << apiKey, wiki, tmdb, mainPc, movieTitles, res, tmp, semaphore, mu,
                    wg, radarrList, successful, failed, ret, files, exit, apiCalls, reqs,
                    aggregated, hin, hout >>

\* deferred func() { <-semaphore }()
Release(i) ==
    /\ pc[i] = "release"
    /\ semaphore > 0
    /\ semaphore' = semaphore - 1
    /\ pc' = [pc EXCEPT ![i] = "done"]
    /\ UNCHANGED << apiKey, wiki, tmdb, mainPc, movieTitles, res, tmp, mu, wg,
                    radarrList, successful, failed, ret, files, exit, apiCalls, reqs, slept,
                    aggregated, hin, hout >>

\* deferred wg.Done()
Done(i) ==
    /\ pc[i] = "done"
    /\ wg' = wg - 1
    /\ pc' = [pc EXCEPT ![i] = "exit"]
    /\ UNCHANGED << apiKey, wiki, tmdb, mainPc, movieTitles, res, tmp, semaphore, mu,
                    radarrList, successful, failed, ret, files, exit, apiCalls, reqs, slept,
                    aggregated, hin, hout >>

\* Mutant of JoinOpen: wg.Wait() does not wait.
JoinOpenAlways == TRUE

\* wg.Wait() can return: the counter is zero.
JoinOpen == wg = 0

\* The end of the for loop and wg.Wait().
Wait ==
    /\ mainPc = "spawn"
    /\ \A i \in Tasks : pc[i] # "unspawned"
    /\ JoinOpen
    /\ mainPc' = "sort"
    /\ UNCHANGED << apiKey, wiki, tmdb, movieTitles, pc, res, tmp, semaphore, mu, wg,
                    radarrList, successful, failed, ret, files, exit, apiCalls, reqs, slept,
                    aggregated, hin, hout >>

\* sort.Slice(radarrList, ...), the summary and return radarrList, nil.
SortAndReturn ==
    /\ mainPc = "sort"
    /\ radarrList' = SortByTitle(radarrList)
    /\ ret' = [list |-> radarrList', err |-> NilErr]
    /\ mainPc' = "returned"
    /\ UNCHANGED << apiKey, wiki, tmdb, movieTitles, pc, res, tmp, semaphore, mu, wg,
                    successful, failed, files, exit, apiCalls, reqs, slept, aggregated,
                    hin, hout >>

\* saveToFile: one attempted write, which the file system lets succeed or not.
WriteAttempt(name, movies, ok) == [name |-> name, movies |-> movies, ok |-> ok]

\* Mutant of ShouldSave: the files are written whatever the list holds.
ShouldSaveAlways(list) == TRUE

\* len(radarrList) > 0
ShouldSave(list) == Len(list) > 0

\* main after generateRadarrList returned: the fatal exit, or the two saves.
Finish ==
    /\ mainPc = "returned"
    /\ IF ret.err # NilErr
       THEN /\ exit' = "fatal"
            /\ UNCHANGED files
       ELSE /\ exit' = "ok"
            /\ IF ShouldSave(ret.list)
               THEN \E ok1 \in BOOLEAN, ok2 \in BOOLEAN :
                       files' = files \o
                           << WriteAttempt("scott_hasnt_seen_timestamp.json", ret.list, ok1),
                              WriteAttempt("scott_hasnt_seen.json", ret.list, ok2) >>
               ELSE UNCHANGED files
    /\ mainPc' = "exited"
    /\ UNCHANGED << apiKey, wiki, tmdb, movieTitles, pc, res, tmp, semaphore, mu, wg,
                    radarrList, successful, failed, ret, apiCalls, reqs, slept, aggregated,
                    hin, hout >>

Next ==
    \/ CheckApiKey
    \/ ScrapeAndExtract
    \/ Spawn
    \/ \E i \in Tasks : Acquire(i)
    \/ \E i \in Tasks : Search(i)
    \/ \E i \in Tasks : Lock(i)
    \/ \E i \in Tasks : Write(i)
    \/ \E i \in Tasks : Unlock(i)
    \/ \E i \in Tasks : Sleep(i)
    \/ \E i \in Tasks : Release(i)
    \/ \E i \in Tasks : Done(i)
    \/ Wait
    \/ SortAndReturn
    \/ Finish

\* Nothing of generateRadarrList has run.
PipelineIdle ==
    /\ movieTitles = <<>>
    /\ pc = <<>>
    /\ res = <<>>
    /\ tmp = <<>>
    /\ semaphore = 0
    /\ mu = 0
    /\ wg = 0
    /\ radarrList = <<>>
    /\ successful = 0
    /\ failed = 0
    /\ ret = NoRet
    /\ files = <<>>
    /\ exit = "running"
    /\ apiCalls = 0
    /\ reqs = <<>>
    /\ slept = <<>>
    /\ aggregated = <<>>

\* The state at the start of main, given the environment.
Start(key, page, world) ==
    /\ apiKey = key
    /\ wiki = page
    /\ tmdb = world
    /\ mainPc = "main"
    /\ PipelineIdle
    /\ hin = [op |-> "none"]
    /\ hout = <<>>

Init ==
    \E key \in {"", "key"}, page \in WikiResponses : Start(key, page, "pipeline")

Spec == Init /\ [][Next]_vars

GateTitles == 6

InitGate ==
    Start("key", [kind |-> "ok", doc |-> [from |-> "gate", picks |-> {}, len |-> GateTitles]],
          "pipeline")

SpecGate == InitGate /\ [][Next]_vars

\* generateRadarrList at its for loop, over one title more than the
\* semaphore has slots: the page was fetched and the titles extracted.
InitLive ==
    /\ apiKey = "key"
    /\ wiki = [kind |-> "ok", doc |-> [from |-> "gate", picks |-> {}, len |-> SemCapacity + 1]]
    /\ tmdb = "pipeline"
    /\ mainPc = "spawn"
    /\ movieTitles = extractMovieTitles(Document(wiki.doc))
    /\ pc = [i \in 1..Len(movieTitles) |-> "unspawned"]
    /\ res = [i \in 1..Len(movieTitles) |-> NoRes]
    /\ tmp = [i \in 1..Len(movieTitles) |-> NoTmp]
    /\ reqs = [i \in 1..Len(movieTitles) |-> 0]
    /\ slept = [i \in 1..Len(movieTitles) |-> FALSE]
    /\ aggregated = [i \in 1..Len(movieTitles) |-> "none"]
    /\ semaphore = 0
    /\ mu = 0
    /\ wg = 0
    /\ radarrList = <<>>
    /\ successful = 0
    /\ failed = 0
    /\ ret = NoRet
    /\ files = <<>>
    /\ exit = "running"
    /\ apiCalls = 0
    /\ hin = [op |-> "none"]
    /\ hout = <<>>

\* The steps of generateRadarrList from the for loop to its return: those of
\* main, the synchronisation steps of the tasks, and the HTTP round trips of
\* the tasks' calls of searchMovie.
NextLive ==
    \/ Spawn
    \/ Wait
    \/ SortAndReturn
    \/ \E i \in Tasks : Acquire(i)
    \/ \E i \in Tasks : Lock(i)
    \/ \E i \in Tasks : Write(i)
    \/ \E i \in Tasks : Unlock(i)
    \/ \E i \in Tasks : Sleep(i)
    \/ \E i \in Tasks : Release(i)
    \/ \E i \in Tasks : Done(i)
    \/ \E i \in Tasks : Search(i)

\* A step that can be taken is eventually taken: the Go scheduler runs a
\* runnable goroutine, every HTTP call returns (the client has a timeout) and
\* time.Sleep ends.
SchedulerFairness == WF_vars(NextLive)

SpecLive == InitLive /\ [][NextLive]_vars /\ SchedulerFairness

(***************************************************************************)
(* searchMovie called directly, over titles and TMDB answers               *)
(***************************************************************************)
tFaceSpOff == <<"F", "a", "c", "e", " ", "/", "O", "f", "f">>
tSlashFoo == <<"/", "F", "o", "o">>
tSpSlashFoo == <<" ", "/", "F", "o", "o">>
tABC == <<"A", "b", "/", "C", "d", "/", "E">>

SearchTitles == { tFaceOff, tFaceSpOff, tSlashFoo, tSpSlashFoo, tFace, tABC }

\* What TMDB does with one query: the search fails in one of three ways,
\* finds nothing, or finds a movie whose external-ids lookup fails in one of
\* three ways or answers with an empty or a non-empty IMDB id.
Answers ==
    { [s |-> k, e |-> "none"] : k \in {"transport", "status", "decode", "empty"} }
    \cup { [s |-> "found", e |-> x] : x \in {"transport", "status", "decode", "noid", "id"} }

SearchAnswer(a, id, q, poster) ==
    IF a.s = "empty" THEN NoResults
    ELSE IF a.s = "found"
    THEN Found(<< TMDBMovie(id, q, poster), TMDBMovie(id + 10, tDuneMessiah, <<>>) >>)
    ELSE Broken(a.s)

ExtAnswer(a, imdb) ==
    IF a.e = "id" THEN ExtOk(imdb)
    ELSE IF a.e = "noid" THEN ExtOk("")
    ELSE IF a.e = "none" THEN [kind |-> "status", imdb |-> ""]
    ELSE [kind |-> a.e, imdb |-> ""]

\* The world in which the full title is answered by a and the trimmed first
\* "/"-segment by b (for a title without "/" both are the same query, and a
\* is the answer).
AnswerWorld(title, a, b) ==
    [search |-> (title :> SearchAnswer(a, 1, title, <<"/", "p">>))
                @@ (TrimSpace(FirstPart(title)) :>
                        SearchAnswer(b, 2, TrimSpace(FirstPart(title)), <<>>)),
     ext |-> (1 :> ExtAnswer(a, "ttFull") @@ 2 :> ExtAnswer(b, "ttPart")
              @@ 11 :> ExtOk("ttOther") @@ 12 :> ExtOk("ttOther"))]

InitSearch ==
    /\ \E title \in SearchTitles, a \in Answers, b \in Answers :
          hin = [op |-> "searchMovie", title |-> title, world |-> AnswerWorld(title, a, b)]
    /\ hout = <<>>
    /\ mainPc = "harness"
    /\ apiKey = "key"
    /\ wiki = [kind |-> "ok", doc |-> [from |-> "pool", picks |-> {}, len |-> 0]]
    /\ tmdb = "pipeline"
    /\ PipelineIdle

\* s.searchMovie(title)
CallSearchMovie ==
    /\ mainPc = "harness"
    /\ hin.op = "searchMovie"
    /\ hout' = searchMovie(hin.world, hin.title)
    /\ mainPc' = "harness_done"
    /\ UNCHANGED << apiKey, wiki, tmdb, movieTitles, pc, res, tmp, semaphore, mu, wg,
                    radarrList, successful, failed, ret, files, exit, apiCalls, reqs, slept,
                    aggregated, hin >>

NextSearch == CallSearchMovie

SpecSearch == InitSearch /\ [][NextSearch]_vars

(***************************************************************************)
(* extractMovieTitles called directly, over documents                      *)
(***************************************************************************)
cEmpty == <<>>
cAbPadded == <<" ", "a", "b", " ">>
cAb == <<"a", "b">>
cAbc == <<"A", "b", "c">>
cAsB == <<"A", " ", "b">>
cSpaceJam == <<"S", "p", "a", "c", "e", " ", "J", "a", "m">>
cAddams == <<"T", "h", "e", " ", "A", "d", "d", "a", "m", "s", " ", "F", "a", "m", "i", "l", "y">>
cSisterAct == <<"S", "i", "s", "t", "e", "r", " ", "A", "c", "t">>
cPart2 == <<"P", "a", "r", "t", " ", "2">>
cPART10 == <<"P", "A", "R", "T", " ", "1", "0">>
cKillBill == <<"K", "i", "l", "l", " ", "B", "i", "l", "l", " ", "p", "a", "r", "t", " ", "1">>
cPartTwo == <<"P", "a", "r", "t", " ", "T", "w", "o">>
cDeparted == <<"D", "e", "p", "a", "r", "t", "e", "d">>
cEpisodeOne == <<"E", "p", "i", "s", "o", "d", "e", " ", "O", "n", "e">>
cOffSeason == <<"O", "f", "f", " ", "S", "E", "A", "S", "O", "N">>
cCobraKai == <<"C", "o", "b", "r", "a", " ", "K", "a", "i", " ", "S", "e", "a", "s", "o", "n", " ", "5">>
cDid == <<"D", "i", "d">>
cCandide == <<"C", "a", "n", "d", "i", "d", "e">>
cSprague == <<"S", "p", "r", "a", "g", "u", "e", " ", "H", "a", "s", "n", "'", "t", " ", "S", "e", "e", "n">>
cTwinPeaks == <<"T", "w", "i", "n", " ", "P", "e", "a", "k", "s">>
cMartin == <<"M", "a", "r", "t", "i", "n">>
cSeeniesAwards == <<"T", "h", "e", " ", "S", "c", "o", "t", "t", " ", "H", "a", "s", "n", "'", "t", " ", "S", "e", "e", "n", "i", "e", "s", " ", "A", "w", "a", "r", "d", "s">>
cSeenies == <<"T", "h", "e", " ", "S", "c", "o", "t", "t", " ", "H", "a", "s", "n", "'", "t", " ", "S", "e", "e", "n", "i", "e", "s">>
cScott == <<"S", "c", "o", "t", "t", " ", "H", "a", "s", "n", "'", "t", " ", "S", "e", "e", "n">>
cPilot == <<"P", "I", "L", "O", "T">>
cWatchalong == <<"W", "a", "t", "c", "h", "a", "l", "o", "n", "g">>
cPenguins == <<"M", "a", "r", "c", "h", " ", "o", "f", " ", "t", "h", "e", " ", "P", "e", "n", "g", "u", "i", "n", "s">>
cSeptember5 == <<"S", "e", "p", "t", "e", "m", "b", "e", "r", " ", "5">>
cNext == <<"W", "h", "a", "t", " ", "N", "e", "x", "t">>
cEpisodes == <<"T", "w", "o", " ", "E", "p", "i", "s", "o", "d", "e", "s">>
cAwards == <<"A", "w", "a", "r", "d", "s">>

\* Texts of <i> elements: ordinary titles, titles each rule rejects, and for
\* every phrase of skipKeywords a text that contains it.
FilterPool ==
    { cEmpty, cAbPadded, cAb, cAbc, cAsB, cSpaceJam, cAddams, cSisterAct,
      cPart2, cPART10, cKillBill, cPartTwo, cDeparted, cEpisodeOne,
      cOffSeason, cCobraKai, cDid, cCandide, cSprague, cTwinPeaks, cMartin,
      cSeeniesAwards, cSeenies, cScott, cPilot, cWatchalong, cPenguins,
      cSeptember5, cNext, cEpisodes, cAwards, tDuneRaw, tDune, tGhost }

\* Texts that repeat within a document, as such or after trimming.
RepeatPool == { tDuneRaw, tDune, tGhost, cAbc, cPart2 }

MaxCands == 3

\* Documents: one or two texts of FilterPool, or up to MaxCands texts of
\* RepeatPool.
ExtractDocs ==
    { <<c>> : c \in FilterPool }
    \cup { <<c, d>> : c \in FilterPool, d \in FilterPool }
    \cup UNION { [1..n -> RepeatPool] : n \in 0..MaxCands }

InitExtract ==
    /\ \E cands \in ExtractDocs : hin = [op |-> "extractMovieTitles", cands |-> cands]
    /\ hout = <<>>
    /\ mainPc = "harness"
    /\ apiKey = "key"
    /\ wiki = [kind |-> "ok", doc |-> [from |-> "pool", picks |-> {}, len |-> 0]]
    /\ tmdb = "pipeline"
    /\ PipelineIdle

\* s.extractMovieTitles(htmlContent)
CallExtractMovieTitles ==
    /\ mainPc = "harness"
    /\ hin.op = "extractMovieTitles"
    /\ hout' = extractMovieTitles(hin.cands)
    /\ mainPc' = "harness_done"
    /\ UNCHANGED << apiKey, wiki, tmdb, movieTitles, pc, res, tmp, semaphore, mu, wg,
                    radarrList, successful, failed, ret, files, exit, apiCalls, reqs, slept,
                    aggregated, hin >>

NextExtract == CallExtractMovieTitles

SpecExtract == InitExtract /\ [][NextExtract]_vars

(***************************************************************************)
(* getGenres called directly, over lists of genre ids                      *)
(***************************************************************************)
\* Ids that repeat and mix within a list: three the table knows, two it does
\* not.
GenreIDPool == {28, 878, 10770, 99999, 0}

MaxGenreIDs == 3

\* Lists of genre ids: every id of the table alone, the list of the
\* repository's test, and up to MaxGenreIDs ids of GenreIDPool.
GenreLists ==
    { <<id>> : id \in DOMAIN genreMap }
    \cup { <<28, 12, 35>> }
    \cup UNION { [1..n -> GenreIDPool] : n \in 0..MaxGenreIDs }

InitGenres ==
    /\ \E ids \in GenreLists : hin = [op |-> "getGenres", genreIDs |-> ids]
    /\ hout = <<>>
    /\ mainPc = "harness"
    /\ apiKey = "key"
    /\ wiki = [kind |-> "ok", doc |-> [from |-> "pool", picks |-> {}, len |-> 0]]
    /\ tmdb = "pipeline"
    /\ PipelineIdle

\* s.getGenres(genreIDs)
CallGetGenres ==
    /\ mainPc = "harness"
    /\ hin.op = "getGenres"
    /\ hout' = getGenres(hin.genreIDs)
    /\ mainPc' = "harness_done"
    /\ UNCHANGED << apiKey, wiki, tmdb, movieTitles, pc, res, tmp, semaphore, mu, wg,
                    radarrList, successful, failed, ret, files, exit, apiCalls, reqs, slept,
                    aggregated, hin >>

NextGenres == CallGetGenres

SpecGenres == InitGenres /\ [][NextGenres]_vars

(***************************************************************************)
(* searchMovieExact called directly, over titles and TMDB answers          *)
(***************************************************************************)
ExactTitles == { tDune, tFace, tFaceOff, tSlashFoo }

\* What the search request meets: a failure, no result, one result or two.
ExactSearchKinds == {"transport", "status", "decode", "empty", "one", "two"}

\* What the external-ids lookup of the first result meets.
ExactExtKinds == {"transport", "status", "decode", "noid", "id"}

\* The world in which the search for title is answered as s says, the first
\* result (catalog id 1) has the poster path poster and its external-ids
\* lookup is answered as e says; the second result (catalog id 2) always has
\* an IMDB id.
ExactWorld(title, s, e, poster) ==
    [search |->
        (title :> IF s = "empty" THEN NoResults
                  ELSE IF s = "one" THEN Found(<< TMDBMovie(1, title, poster) >>)
                  ELSE IF s = "two"
                  THEN Found(<< TMDBMovie(1, title, poster),
                                TMDBMovie(2, tDuneMessiah, <<>>) >>)
                  ELSE Broken(s)),
     ext |-> (1 :> ExtAnswer([s |-> "found", e |-> e], "ttFirst")
              @@ 2 :> ExtOk("ttSecond"))]

InitExact ==
    /\ \E title \in ExactTitles, s \in ExactSearchKinds, e \in ExactExtKinds,
          poster \in { <<>>, <<"/", "p">> } :
          hin = [op |-> "searchMovieExact", title |-> title,
                 world |-> ExactWorld(title, s, e, poster)]
    /\ hout = <<>>
    /\ mainPc = "harness"
    /\ apiKey = "key"
    /\ wiki = [kind |-> "ok", doc |-> [from |-> "pool", picks |-> {}, len |-> 0]]
    /\ tmdb = "pipeline"
    /\ PipelineIdle

\* s.searchMovieExact(title)
CallSearchMovieExact ==
    /\ mainPc = "harness"
    /\ hin.op = "searchMovieExact"
    /\ hout' = searchMovieExact(hin.world, hin.title)
    /\ mainPc' = "harness_done"
    /\ UNCHANGED << apiKey, wiki, tmdb, movieTitles, pc, res, tmp, semaphore, mu, wg,
                    radarrList, successful, failed, ret, files, exit, apiCalls, reqs, slept,
                    aggregated, hin >>

NextExact == CallSearchMovieExact

SpecExact == InitExact /\ [][NextExact]_vars

(***************************************************************************)
(* Properties                                                              *)
(***************************************************************************)
\* The tasks between acquiring a semaphore slot and releasing it.
Holders == {i \in DOMAIN pc : pc[i] \in {"search", "lock", "write", "unlock", "sleep", "release"}}

\* The tasks that have finished their aggregation step and left the mutex.
Completed == {i \in DOMAIN pc : pc[i] \in {"sleep", "release", "done", "exit"}}

\* A search outcome that is an entry with a non-empty IMDB id.
Usable(r) == r.err = NilErr /\ r.movie # <<>> /\ r.movie[1].IMDBID # ""

AllHaveId(list) == \A k \in 1..Len(list) : list[k].IMDBID # ""

\* C1: at no reachable state do more than 5 tasks hold an admission slot, and
\* while 5 hold one no further task can acquire (it waits).
C1_AtMostFiveHoldSlot ==
    /\ Cardinality(Holders) <= 5
    /\ Cardinality(Holders) = 5 => \A i \in DOMAIN pc : ~ENABLED Acquire(i)

\* Five tasks hold a slot while a sixth waits to acquire one.
C1_Witness == Cardinality(Holders) = 5 /\ \E i \in DOMAIN pc : pc[i] = "acquire"

\* C2: once generateRadarrList is past wg.Wait() (sorting, returning, or main
\* after the return), every spawned task has finished and has aggregated its
\* outcome, and the returned list holds one entry per usable outcome.
C2_ReturnsOnlyAfterAllTasks ==
    /\ mainPc \in {"sort", "returned", "exited"} =>
          \A i \in DOMAIN pc : pc[i] = "exit" /\ aggregated[i] # "none"
    /\ (mainPc \in {"returned", "exited"} /\ ret.err = NilErr) =>
          Len(ret.list) = Cardinality({i \in DOMAIN pc : Usable(res[i])})

\* A run over three titles has returned a list with entries and failures.
C2_Witness ==
    mainPc = "returned" /\ Len(movieTitles) = 3 /\ Len(ret.list) >= 1 /\ failed >= 1

\* C3: the aggregation step of a task appends its entry and increments
\* successful exactly when searchMovie succeeded with a non-empty IMDB id
\* (whatever the poster URL), and otherwise increments failed and appends
\* nothing; the list and the counters change in no other step before the sort.
C3_OneOutcomePerTask ==
    [][ /\ \A i \in DOMAIN pc \cap DOMAIN pc' :
              (pc[i] = "write" /\ pc'[i] = "unlock") =>
                  IF Usable(res[i])
                  THEN /\ radarrList' = Append(radarrList, res[i].movie[1])
                       /\ successful' = successful + 1
                       /\ failed' = failed
                  ELSE /\ radarrList' = radarrList
                       /\ successful' = successful
                       /\ failed' = failed + 1
        /\ (radarrList' # radarrList \/ successful' # successful \/ failed' # failed) =>
              \/ mainPc = "sort"
              \/ \E i \in DOMAIN pc \cap DOMAIN pc' : pc[i] = "write" /\ pc'[i] = "unlock"
      ]_vars

\* One task appended an entry without poster, one failed on an empty IMDB id
\* and one failed on a searchMovie error.
C3_Witness ==
    \E i \in DOMAIN pc, j \in DOMAIN pc, k \in DOMAIN pc :
        /\ aggregated[i] = "append" /\ res[i].movie[1].PosterURL = <<>>
        /\ aggregated[j] = "fail" /\ res[j].err = NilErr
        /\ aggregated[k] = "fail" /\ res[k].err # NilErr

\* C4: whenever the mutex is free the list has successful entries and
\* successful + failed is the number of tasks that have aggregated; at the
\* return, successful + failed is the number of titles and the returned list
\* has successful entries.
C4_NoLostUpdate ==
    /\ mu = 0 => /\ Len(radarrList) = successful
                 /\ successful + failed = Cardinality(Completed)
    /\ (mainPc \in {"returned", "exited"} /\ ret.err = NilErr) =>
          /\ successful + failed = Len(movieTitles)
          /\ Len(ret.list) = successful

\* The mutex is free after successes and failures, and a task waits for it.
C4_Witness ==
    mu = 0 /\ successful >= 1 /\ failed >= 1 /\ \E i \in DOMAIN pc : pc[i] = "lock"

\* C5: every entry of the shared list, of the returned list and of every file
\* handed to saveToFile has a non-empty IMDB id.
C5_EveryEntryHasIMDBID ==
    /\ AllHaveId(radarrList)
    /\ AllHaveId(ret.list)
    /\ \A f \in 1..Len(files) : AllHaveId(files[f].movies)

\* The files were written in a run in which one title resolved to an entry
\* with an empty IMDB id.
C5_Witness ==
    /\ mainPc = "exited"
    /\ Len(files) = 2
    /\ \E i \in DOMAIN pc : res[i].err = NilErr /\ res[i].movie # <<>>
                            /\ res[i].movie[1].IMDBID = ""

\* C6: every task that has released its slot has paused 250ms before, on the
\* success path and on every failure path.
C6_EveryTaskPausesBeforeRelease ==
    \A i \in DOMAIN pc : pc[i] \in {"done", "exit"} => slept[i]

\* The direct call of searchMovie has returned.
SearchDone == mainPc = "harness_done" /\ hin.op = "searchMovie"

\* TMDB resolves query q: the search answers with a result and the
\* external-ids lookup of the first result answers.
Resolves(w, q) ==
    LET r == SearchResponse(w, q)
    IN  /\ r.kind = "ok"
        /\ Len(r.results) > 0
        /\ ExtResponse(w, r.results[1].ID).kind = "ok"

\* The entry TMDB's answers to query q amount to.
EntryOf(w, q) ==
    LET m == SearchResponse(w, q).results[1]
    IN  [Title     |-> m.Title,
         IMDBID    |-> ExtResponse(w, m.ID).imdb,
         PosterURL |-> IF m.PosterPath = <<>> THEN <<>> ELSE <<PosterBase>> \o m.PosterPath]

FirstSegment(title) == TrimSpace(FirstPart(title))

\* C7: for a title with "/" whose full-string search fails and whose trimmed
\* first segment is non-empty and resolves, searchMovie returns the entry of
\* the first segment and no error.
C7_FallbackToFirstSegment ==
    ( /\ SearchDone
      /\ Contains(hin.title, <<"/">>)
      /\ ~Resolves(hin.world, hin.title)
      /\ FirstSegment(hin.title) # <<>>
      /\ Resolves(hin.world, FirstSegment(hin.title)) )
    => /\ hout.err = NilErr
       /\ hout.movie = << EntryOf(hin.world, FirstSegment(hin.title)) >>

\* searchMovie returned the entry of "Face" for "Face /Off", whose first
\* segment needs trimming.
C7_Witness ==
    /\ SearchDone
    /\ hin.title = tFaceSpOff
    /\ ~Resolves(hin.world, hin.title)
    /\ Resolves(hin.world, tFace)
    /\ hout.err = NilErr
    /\ hout.movie[1].Title = tFace

\* C8: for a title with "/", when the full-string attempt and the
\* first-segment attempt both fail, searchMovie returns no entry and the
\* error saying that the full title and the first part were tried.
C8_BothAttemptsFail ==
    ( /\ SearchDone
      /\ Contains(hin.title, <<"/">>)
      /\ ~Resolves(hin.world, hin.title)
      /\ FirstSegment(hin.title) # <<>>
      /\ ~Resolves(hin.world, FirstSegment(hin.title)) )
    => /\ hout.err = ErrTriedBoth
       /\ hout.movie = <<>>

\* Both attempts were made and failed, the second one in the external-ids
\* lookup.
C8_Witness ==
    /\ SearchDone
    /\ Contains(hin.title, <<"/">>)
    /\ ~Resolves(hin.world, hin.title)
    /\ FirstSegment(hin.title) # <<>>
    /\ ~Resolves(hin.world, FirstSegment(hin.title))
    /\ Len(hout.calls) = 3
    /\ hout.err = ErrTriedBoth

\* A task that cannot take a step: it has finished, it waits for a slot while
\* five are held, or it waits for the mutex while it is held.
Blocked(i) ==
    \/ pc[i] = "exit"
    \/ pc[i] = "acquire" /\ Cardinality(Holders) >= 5
    \/ pc[i] = "lock" /\ mu # 0

\* The run is stalled: main waits at the join for a counter that is not zero
\* and no task can take a step.
Stalled ==
    /\ mainPc = "spawn"
    /\ \A i \in DOMAIN pc : pc[i] # "unspawned" /\ Blocked(i)
    /\ wg # 0

\* C9: no per-title failure stops the run: the run never stalls, and when
\* generateRadarrList has returned on a fetched document it returned no
\* error, every task has finished, each title without a usable outcome
\* counted as one failure and added no entry, and every usable outcome is in
\* the returned list.
C9_FailuresDoNotAbort ==
    /\ ~Stalled
    /\ (mainPc \in {"returned", "exited"} /\ apiKey # "" /\ wiki.kind = "ok") =>
          /\ ret.err = NilErr
          /\ \A i \in DOMAIN pc :
                /\ pc[i] = "exit"
                /\ Usable(res[i]) => \E k \in 1..Len(ret.list) : ret.list[k] = res[i].movie[1]
                /\ ~Usable(res[i]) => aggregated[i] = "fail"
          /\ failed = Cardinality({i \in DOMAIN pc : ~Usable(res[i])})
          /\ Len(ret.list) = Cardinality({i \in DOMAIN pc : Usable(res[i])})

\* The run returned an entry although one title failed with an error and
\* another one on an empty IMDB id.
C9_Witness ==
    /\ mainPc = "returned"
    /\ Len(ret.list) >= 1
    /\ \E i \in DOMAIN pc, j \in DOMAIN pc :
          /\ res[i].err # NilErr
          /\ res[j].err = NilErr /\ ~Usable(res[j])

\* C10: when the wiki page cannot be fetched or parsed, no task is spawned,
\* no TMDB request is issued, no file is written, generateRadarrList returns
\* an error and main exits fatally.
C10_DocumentFailureIsFatal ==
    (apiKey # "" /\ wiki.kind \in {"transport", "status", "parse", "reparse"}) =>
        /\ pc = <<>>
        /\ wg = 0
        /\ apiCalls = 0
        /\ files = <<>>
        /\ mainPc \in {"main", "scrape", "returned", "exited"}
        /\ mainPc = "returned" => ret.err # NilErr
        /\ mainPc = "exited" => exit = "fatal"

\* main exited fatally after the wiki answered with a status other than 200.
C10_Witness == apiKey # "" /\ wiki.kind = "status" /\ mainPc = "exited" /\ exit = "fatal"

\* C11: when TMDB_API_KEY is empty, main exits fatally at its first step and
\* nothing else of the run happens: generateRadarrList is never entered (no
\* fetch of the wiki page, no titles, no task, no TMDB request, no return
\* value) and no file is written.
C11_MissingKeyIsFatalBeforeWork ==
    apiKey = "" =>
        /\ mainPc \in {"main", "exited"}
        /\ mainPc = "exited" => exit = "fatal"
        /\ mainPc = "main" => exit = "running"
        /\ movieTitles = <<>>
        /\ pc = <<>>
        /\ wg = 0
        /\ semaphore = 0
        /\ apiCalls = 0
        /\ radarrList = <<>>
        /\ ret = NoRet
        /\ files = <<>>

\* main exited fatally without the key although the wiki page was there to
\* be fetched and held three titles.
C11_Witness ==
    /\ apiKey = ""
    /\ mainPc = "exited"
    /\ exit = "fatal"
    /\ wiki.kind = "ok"
    /\ wiki.doc.len = 3

\* The run went through generateRadarrList and it returned without error.
ReturnedList ==
    mainPc \in {"returned", "exited"} /\ apiKey # "" /\ wiki.kind = "ok" /\ ret.err = NilErr

\* Adjacent entries are in ascending byte order of their titles.
SortedByTitle(list) ==
    \A k \in 1..(Len(list) - 1) : ~StrLess(list[k + 1].Title, list[k].Title)

\* The number of occurrences of entry e in list.
Count(list, e) == Cardinality({k \in 1..Len(list) : list[k] = e})

\* The tasks that appended the entry e to the shared list.
Appenders(e) == {i \in DOMAIN pc : aggregated[i] = "append" /\ res[i].movie[1] = e}

\* C12: the list generateRadarrList returns is in ascending byte order of the
\* titles and is a permutation of the aggregated entries: every entry occurs
\* in it as many times as tasks appended it, and nothing else occurs in it.
C12_ReturnedListSortedPermutation ==
    ReturnedList =>
        /\ SortedByTitle(ret.list)
        /\ \A i \in DOMAIN pc :
              aggregated[i] = "append" =>
                  Count(ret.list, res[i].movie[1]) = Cardinality(Appenders(res[i].movie[1]))
        /\ \A k \in 1..Len(ret.list) : Appenders(ret.list[k]) # {}

\* Three entries were returned in a run whose titles are not in ascending
\* order of the resolved titles, with a title occurring twice.
C12_Witness ==
    /\ ReturnedList
    /\ mainPc = "returned"
    /\ Len(ret.list) = 3
    /\ ret.list[1].Title # ret.list[2].Title
    /\ ret.list[2].Title = ret.list[3].Title
    /\ \E i \in DOMAIN pc, j \in DOMAIN pc :
          /\ i < j
          /\ Usable(res[i]) /\ Usable(res[j])
          /\ StrLess(res[j].movie[1].Title, res[i].movie[1].Title)

\* The usable entries of tasks 1..n in the order of the titles.
RECURSIVE EntriesInTaskOrder(_)
EntriesInTaskOrder(n) ==
    IF n = 0 THEN <<>>
    ELSE EntriesInTaskOrder(n - 1)
         \o (IF Usable(res[n]) THEN <<res[n].movie[1]>> ELSE <<>>)

\* C13: for the same titles and the same TMDB answers every completion order
\* of the tasks yields the same returned sequence, the one of the run in which
\* the tasks aggregate in the order of the titles.
C13_OutputIndependentOfCompletionOrder ==
    ReturnedList => ret.list = SortByTitle(EntriesInTaskOrder(Len(res)))

\* C14: the returned list holds no two entries with the same title and the
\* same IMDB id.
C14_OutputDeduplicated ==
    ReturnedList =>
        \A k \in 1..Len(ret.list), l \in 1..Len(ret.list) :
            (k # l) => ~( /\ ret.list[k].Title = ret.list[l].Title
                          /\ ret.list[k].IMDBID = ret.list[l].IMDBID )

\* The direct call of extractMovieTitles has returned.
ExtractDone == mainPc = "harness_done" /\ hin.op = "extractMovieTitles"

\* The trimmed text of the k-th <i> element of the document.
Candidate(k) == TrimSpace(hin.cands[k])

\* The titles extractMovieTitles returned, as a set.
Emitted == {hout[k] : k \in 1..Len(hout)}

\* The positions of the document whose trimmed text occurs at no earlier
\* position and passes the rules.
Kept ==
    {k \in 1..Len(hin.cands) :
        /\ \A j \in 1..(k - 1) : Candidate(j) # Candidate(k)
        /\ AcceptTitle(Candidate(k))}

\* C15: one call of extractMovieTitles returns no title twice, and what it
\* returns is the trimmed texts at the first occurrences of the accepted
\* candidates, in document order.
C15_FirstOccurrencesInDocumentOrder ==
    ExtractDone =>
        /\ \A k \in 1..Len(hout), l \in 1..Len(hout) : hout[k] = hout[l] => k = l
        /\ Len(hout) = Cardinality(Kept)
        /\ \A k \in Kept : hout[Cardinality({j \in Kept : j <= k})] = Candidate(k)

\* " Dune ", "Ghost", "Dune": the third text repeats the first after trimming.
C15_Witness ==
    /\ ExtractDone
    /\ hin.cands = <<tDuneRaw, tGhost, tDune>>
    /\ hout = <<tDune, tGhost>>

\* The lower-cased text l holds "part", one space and a digit.
MentionsPartNumber(l) ==
    \E i \in 1..Len(l) :
        /\ i + 5 <= Len(l)
        /\ SubSeq(l, i, i + 4) = <<"p", "a", "r", "t", " ">>
        /\ l[i + 5] \in {"0", "1", "2", "3", "4", "5", "6", "7", "8", "9"}

\* C16: no candidate that contains, in any letter case, "season", "episode"
\* or "part" followed by a space and a number is returned.
C16_EpisodeSeasonPartExcluded ==
    ExtractDone =>
        \A k \in 1..Len(hin.cands) :
            LET l == ToLower(Candidate(k))
            IN  ( \/ Contains(l, <<"s", "e", "a", "s", "o", "n">>)
                  \/ Contains(l, <<"e", "p", "i", "s", "o", "d", "e">>)
                  \/ MentionsPartNumber(l) )
                => Candidate(k) \notin Emitted

\* "Kill Bill part 1" and "Ghost": only "Ghost" is returned.
C16_Witness ==
    /\ ExtractDone
    /\ hin.cands = <<cKillBill, tGhost>>
    /\ hout = <<tGhost>>

\* C17: a single-word candidate under 4 characters is not returned; a
\* candidate of at least 3 characters that passes the denylist and the
\* episode pattern and is multi-word or a single word of at least 4
\* characters is returned.
C17_ShortSingleWordRule ==
    ExtractDone =>
        \A k \in 1..Len(hin.cands) :
            LET t == Candidate(k)
            IN  /\ (NumFields(t) <= 1 /\ Len(t) < 4) => t \notin Emitted
                /\ ( /\ Len(t) >= 3
                      /\ ~HasSkipKeyword(t)
                      /\ ~episodePattern(t)
                      /\ (NumFields(t) >= 2 \/ Len(t) >= 4) )
                   => t \in Emitted

\* "Abc" and "Dune": only the four-letter word is returned.
C17_Witness ==
    /\ ExtractDone
    /\ hin.cands = <<cAbc, tDune>>
    /\ hout = <<tDune>>

\* C18: no candidate whose trimmed text has fewer than 3 characters is
\* returned.
C18_UnderThreeCharactersExcluded ==
    ExtractDone =>
        /\ \A k \in 1..Len(hin.cands) : Len(Candidate(k)) < 3 => Candidate(k) \notin Emitted
        /\ \A k \in 1..Len(hout) : Len(hout[k]) >= 3

\* " ab " and "A b": the first has two characters once trimmed, the second is
\* returned.
C18_Witness ==
    /\ ExtractDone
    /\ hin.cands = <<cAbPadded, cAsB>>
    /\ hout = <<cAsB>>

\* Texts the denylist rejects and ordinary titles it lets pass.
DenylistedExamples == {cCobraKai, cDid, cSprague, cTwinPeaks, cMartin, cSeeniesAwards}
OrdinaryExamples == {cSpaceJam, cAddams, tGhost, cSisterAct}

\* C19: no candidate whose lower-case form contains a phrase of the denylist
\* is returned, and the ordinary titles are returned.
C19_DenylistExcluded ==
    ExtractDone =>
        \A k \in 1..Len(hin.cands) :
            LET t == Candidate(k)
            IN  /\ (\E n \in 1..Len(skipKeywords) : Contains(ToLower(t), skipKeywords[n]))
                       => t \notin Emitted
                /\ t \in DenylistedExamples => t \notin Emitted
                /\ t \in OrdinaryExamples => t \in Emitted

\* "Twin Peaks" and "Space Jam": only "Space Jam" is returned.
C19_Witness ==
    /\ ExtractDone
    /\ hin.cands = <<cTwinPeaks, cSpaceJam>>
    /\ hout = <<cSpaceJam>>

\* The direct call of getGenres has returned.
GenresDone == mainPc = "harness_done" /\ hin.op = "getGenres"

\* The positions of the input whose id is in the table.
KnownPositions == {p \in 1..Len(hin.genreIDs) : hin.genreIDs[p] \in DOMAIN genreMap}

\* C20: getGenres returns one name per input id the table knows, in input
\* order, each the table's name for the id and in lower case; ids the table
\* does not know add nothing, so a list of unknown ids yields the empty list.
C20_GenresMappedInOrder ==
    GenresDone =>
        /\ Len(hout) = Cardinality(KnownPositions)
        /\ \A p \in KnownPositions :
              hout[Cardinality({q \in KnownPositions : q <= p})] = genreMap[hin.genreIDs[p]]
        /\ \A k \in 1..Len(hout) : hout[k] # <<>> /\ ToLower(hout[k]) = hout[k]
        /\ hin.genreIDs = <<28, 12, 35>> =>
              hout = << <<"a", "c", "t", "i", "o", "n">>,
                        <<"a", "d", "v", "e", "n", "t", "u", "r", "e">>,
                        <<"c", "o", "m", "e", "d", "y">> >>

\* An unknown id between two known ones was dropped and the order kept.
C20_Witness ==
    /\ GenresDone
    /\ hin.genreIDs = <<878, 99999, 28>>
    /\ Len(hout) = 2
    /\ hout[2] = <<"a", "c", "t", "i", "o", "n">>

\* The tasks that have been spawned and have not yet called wg.Done().
Unfinished == {i \in DOMAIN pc : pc[i] \notin {"unspawned", "exit"}}

\* C21: the tokens in the semaphore are exactly those of the tasks between
\* their acquire and their release (one each, so none is released twice or
\* kept), every such task still counts in the WaitGroup (the release comes
\* before wg.Done()), and once generateRadarrList is past wg.Wait() all
\* slots are free.
C21_SlotReleasedOnceBeforeDone ==
    /\ semaphore = Cardinality(Holders)
    /\ wg = Cardinality(Unfinished)
    /\ \A i \in DOMAIN pc : pc[i] \in {"done", "exit"} => aggregated[i] # "none"
    /\ mainPc \in {"sort", "returned", "exited"} => semaphore = 0

\* generateRadarrList is past the join with all slots free after one task
\* appended and another one failed on a searchMovie error.
C21_Witness ==
    /\ mainPc = "sort"
    /\ semaphore = 0
    /\ Len(movieTitles) = 3
    /\ \E i \in DOMAIN pc, j \in DOMAIN pc :
          /\ aggregated[i] = "append"
          /\ aggregated[j] = "fail" /\ res[j].err # NilErr

\* The queries of the search requests among calls, in the order issued.
RECURSIVE SearchQueries(_)
SearchQueries(calls) ==
    IF calls = <<>> THEN <<>>
    ELSE (IF calls[1].op = "search" THEN <<calls[1].q>> ELSE <<>>)
         \o SearchQueries(Tail(calls))

\* C22: searchMovie searches the full title first; a title without "/" is
\* searched once; a second search is made only for a title with "/" whose
\* full-title attempt failed and whose trimmed first segment is not empty,
\* and it asks for that segment; there are never more than two searches and
\* no query is asked twice.
C22_SearchAttemptsInOrder ==
    SearchDone =>
        LET queries == SearchQueries(hout.calls)
        IN  /\ Len(queries) \in {1, 2}
            /\ queries[1] = hin.title
            /\ ~Contains(hin.title, <<"/">>) => Len(queries) = 1
            /\ Len(queries) = 2 =>
                  /\ Contains(hin.title, <<"/">>)
                  /\ ~Resolves(hin.world, hin.title)
                  /\ FirstSegment(hin.title) # <<>>
                  /\ queries[2] = FirstSegment(hin.title)
                  /\ queries[2] # queries[1]
            /\ Resolves(hin.world, hin.title) => Len(queries) = 1

\* "Face /Off": the full title found nothing, then "Face" was searched and
\* its external ids were looked up.
C22_Witness ==
    /\ SearchDone
    /\ hin.title = tFaceSpOff
    /\ hout.calls = <<SearchCall(tFaceSpOff), SearchCall(tFace), ExtCall(2)>>

\* C27: when searchMovie returns the error saying that the full title and
\* the first part were tried, it has made two search attempts, one for the
\* full title and one for the trimmed first segment.
C27_TriedBothMeansTwoAttempts ==
    (SearchDone /\ hout.err = ErrTriedBoth) =>
        SearchQueries(hout.calls) = <<hin.title, FirstSegment(hin.title)>>

\* The entry TMDB's answers give for the full title has an empty IMDB id.
FullTitleHasEmptyId ==
    /\ Contains(hin.title, <<"/">>)
    /\ Resolves(hin.world, hin.title)
    /\ EntryOf(hin.world, hin.title).IMDBID = ""

\* C28: for a title with "/" whose full-title search finds a result whose
\* external-ids lookup answers with an empty IMDB id, searchMovie makes no
\* second search and returns that entry without error, and the task's
\* branch on it is the failure branch.
C28_NoFallbackOnEmptyId ==
    (SearchDone /\ FullTitleHasEmptyId) =>
        /\ hout.calls = <<SearchCall(hin.title),
                          ExtCall(SearchResponse(hin.world, hin.title).results[1].ID)>>
        /\ hout.err = NilErr
        /\ hout.movie = << EntryOf(hin.world, hin.title) >>
        /\ Branch([movie |-> hout.movie, err |-> hout.err]) = "fail"

\* "Face/Off" resolved to an entry with an empty IMDB id although "Face"
\* would have resolved to one with an id.
C28_Witness ==
    /\ SearchDone
    /\ hin.title = tFaceOff
    /\ FullTitleHasEmptyId
    /\ Resolves(hin.world, tFace)
    /\ EntryOf(hin.world, tFace).IMDBID # ""
    /\ hout.err = NilErr
    /\ Len(hout.calls) = 2

\* The direct call of searchMovieExact has returned.
ExactDone == mainPc = "harness_done" /\ hin.op = "searchMovieExact"

\* C23: searchMovieExact issues the external-ids lookup only after its search
\* request answered with at least one result, once, and for the first result;
\* when that lookup fails (transport, status or decoding) it returns the
\* IMDB-id error and no entry; an entry is returned only with the id the
\* lookup of the first result answered.
C23_LookupOnlyForFirstResult ==
    ExactDone =>
        LET r == SearchResponse(hin.world, hin.title)
            found == r.kind = "ok" /\ Len(r.results) > 0
        IN  /\ hout.calls[1] = SearchCall(hin.title)
            /\ Len(hout.calls) = IF found THEN 2 ELSE 1
            /\ found => hout.calls[2] = ExtCall(r.results[1].ID)
            /\ ~found => hout.err # NilErr /\ hout.movie = <<>>
            /\ (found /\ ExtResponse(hin.world, r.results[1].ID).kind # "ok") =>
                  hout.err = ErrIMDBID /\ hout.movie = <<>>
            /\ hout.movie # <<>> =>
                  /\ hout.err = NilErr
                  /\ found
                  /\ hout.movie[1].Title = r.results[1].Title
                  /\ hout.movie[1].IMDBID = ExtResponse(hin.world, r.results[1].ID).imdb

\* The search gave two results; the lookup of the first one was answered
\* with a status other than 200 and the call returned the error and no entry.
C23_Witness ==
    /\ ExactDone
    /\ Len(SearchResponse(hin.world, hin.title).results) = 2
    /\ ExtResponse(hin.world, 1).kind = "status"
    /\ hout.calls = <<SearchCall(hin.title), ExtCall(1)>>
    /\ hout.err = ErrIMDBID
    /\ hout.movie = <<>>

\* The tasks inside the critical section: after mu.Lock() returned and
\* before mu.Unlock() returned.
InCritical == {i \in DOMAIN pc : pc[i] \in {"write", "unlock"}}

\* C24: at most one task is inside the critical section, the holder of the
\* mutex is that task, and no task holds the mutex while it waits for a
\* slot, is inside searchMovie, waits for the mutex, sleeps, or runs its
\* deferred calls; past the join the mutex is free.
C24_MutexOnlyInCriticalSection ==
    /\ Cardinality(InCritical) <= 1
    /\ mu # 0 => InCritical = {mu}
    /\ mu = 0 => InCritical = {}
    /\ \A i \in DOMAIN pc :
          pc[i] \in {"unspawned", "acquire", "search", "lock", "sleep", "release",
                     "done", "exit"} => mu # i
    /\ mainPc \in {"sort", "returned", "exited"} => mu = 0

\* One task holds the mutex for its write while another is inside
\* searchMovie and a third sleeps.
C24_Witness ==
    \E i \in DOMAIN pc, j \in DOMAIN pc, k \in DOMAIN pc :
        /\ mu = i /\ pc[i] = "write"
        /\ pc[j] = "search"
        /\ pc[k] = "sleep"

\* The tasks inside searchMovie.
RECURSIVE RequestsOf(_)

InSearch == {i \in DOMAIN pc : pc[i] = "search"}

\* The requests issued by the tasks 1..n.
RequestsOf(n) == IF n = 0 THEN 0 ELSE RequestsOf(n - 1) + reqs[n]

\* C25: the tasks inside searchMovie each hold one of the tokens in the
\* semaphore, of which there are never more than 5; a task that has not
\* acquired a slot has issued no request and has no search outcome, and
\* every TMDB request issued so far was issued by one of the tasks.
C25_ApiCallsOnlyHoldingSlot ==
    /\ Cardinality(InSearch) <= semaphore
    /\ semaphore <= 5
    /\ \A i \in DOMAIN pc :
          pc[i] \in {"unspawned", "acquire"} => reqs[i] = 0 /\ res[i] = NoRes
    /\ apiCalls = RequestsOf(Len(reqs))

\* Five tasks are inside searchMovie, one of them between two of its
\* requests, while a sixth waits for a slot.
C25_Witness ==
    /\ Cardinality(InSearch) = 5
    /\ semaphore = 5
    /\ \E i \in InSearch : reqs[i] > 0
    /\ \E i \in DOMAIN pc : pc[i] = "acquire" /\ reqs[i] = 0

TimestampedFile == "scott_hasnt_seen_timestamp.json"
MainFile == "scott_hasnt_seen.json"

\* C29: main attempts no file write before it is done, none after a fatal
\* exit and none when the returned list is empty; when the list is not empty
\* it attempts the timestamped file and then the main file, both with the
\* returned list, whether or not the first write succeeded.
C29_FilesWrittenOnlyForNonEmptyList ==
    IF mainPc = "exited" /\ exit = "ok" /\ Len(ret.list) > 0
    THEN /\ Len(files) = 2
         /\ files[1].name = TimestampedFile /\ files[1].movies = ret.list
         /\ files[2].name = MainFile /\ files[2].movies = ret.list
    ELSE files = <<>>

\* The write of the timestamped file failed and the main file was written.
C29_Witness ==
    /\ mainPc = "exited"
    /\ Len(files) = 2
    /\ ~files[1].ok
    /\ files[2].name = MainFile /\ files[2].ok

\* generateRadarrList has returned a list after every task of a run with
\* more titles than slots acquired a slot, finished and released it.
RunCompleted ==
    /\ mainPc = "returned"
    /\ ret.err = NilErr
    /\ Len(pc) > SemCapacity
    /\ \A i \in DOMAIN pc : pc[i] = "exit" /\ aggregated[i] # "none"
    /\ semaphore = 0
    /\ wg = 0

\* C26: when every step that can be taken is eventually taken, a run over
\* more titles than slots does not get stuck: eventually every task has
\* acquired a slot, finished and released it, and generateRadarrList has
\* passed the join and returned.
C26_RunEventuallyCompletes == <>RunCompleted

\* The run over six titles has returned.
C26_Witness == RunCompleted /\ Len(movieTitles) = 6 /\ failed = 5

====
